---- MODULE Spec2Model ----
(***************************************************************************)
(* Model of pyatv/conf.py: the AppleTV device configuration, its service   *)
(* registry, and the BaseService / DmapService / MrpService /              *)
(* AirPlayService classes.                                                 *)
(*                                                                         *)
(* Python values are records tagged with their class in the field cls, so  *)
(* that None, False, "", 0 and objects can be told apart the way Python's  *)
(* truth test and the `is not None` test tell them apart.                  *)
(***************************************************************************)
EXTENDS Integers, Sequences, FiniteSets, TLC

VARIABLES
    address,               \* AppleTV.address
    name,                  \* AppleTV.name
    _services,             \* AppleTV._services: dict protocol -> service
    _supported_protocols,  \* AppleTV._supported_protocols: preference order
    op,                    \* the last call made on the device: name and argument
    pre,                   \* _services as it was when that call started
    ret,                   \* what that call returned
    supersessions,         \* per protocol, how often its entry was replaced
    effective              \* how many add_service calls changed the registry

\* the fields no method assigns after construction
config == <<address, name, _supported_protocols>>

\* the counters kept beside the device
counters == <<supersessions, effective>>

vars == <<config, _services, op, pre, ret, counters>>

----------------------------------------------------------------------------
(* Python values *)

None == [cls |-> "NoneType"]
False == [cls |-> "bool", value |-> FALSE]
True == [cls |-> "bool", value |-> TRUE]
PyStr(s) == [cls |-> "str", value |-> s]
PyInt(n) == [cls |-> "int", value |-> n]

\* Python's truth test, as applied by `not x`, `x and y`, `x or y`, `if x`.
\* Instances of the service classes define neither __bool__ nor __len__.
Truthy(v) ==
    CASE v.cls = "NoneType" -> FALSE
      [] v.cls = "bool" -> v.value
      [] v.cls = "str" -> v.value /= ""
      [] v.cls = "int" -> v.value /= 0
      [] OTHER -> TRUE

Not(a) == IF Truthy(a) THEN False ELSE True
And(a, b) == IF Truthy(a) THEN b ELSE a
Or(a, b) == IF Truthy(a) THEN a ELSE b

----------------------------------------------------------------------------
(* Protocols and the inputs the callers supply *)

PROTOCOL_MRP == "MRP"
PROTOCOL_DMAP == "DMAP"
PROTOCOL_AIRPLAY == "AIRPLAY"

Protocols == {PROTOCOL_MRP, PROTOCOL_DMAP, PROTOCOL_AIRPLAY}

_SUPPORTED_PROTOCOLS == <<PROTOCOL_MRP, PROTOCOL_DMAP>>

DmapDefaultPort == 3689
AirPlayDefaultPort == 7000

\* Longest custom preference order passed as supported_services.
MaxOrderLen == 2

\* The counters stop counting here.
MaxSupersessions == 2
MaxEffective == 7

\* addresses and names of devices
Addresses == {"10.0.0.1", "10.0.0.2"}
Names == {"A", "B"}

\* Preference orders: the protocols of a list, each at most once.
Orders ==
    {s \in UNION {[1..n -> Protocols] : n \in 0..MaxOrderLen} :
        \A i, j \in 1..Len(s) : i /= j => s[i] /= s[j]}

Ports == {PyInt(DmapDefaultPort), PyInt(AirPlayDefaultPort)}
\* port arguments of DmapService: omitted (None), 0, or a port
PortArgs == {None, PyInt(0)} \cup Ports
\* login ids: absent, the empty string, a pairing id
LoginIds == {None, PyStr(""), PyStr("x")}

----------------------------------------------------------------------------
(* The service classes *)

BaseService(protocol, port) ==
    [cls |-> "BaseService", protocol |-> protocol, port |-> port]

DmapService(login_id, port) ==
    [cls |-> "DmapService", protocol |-> PROTOCOL_DMAP,
     port |-> Or(port, PyInt(DmapDefaultPort)), login_id |-> login_id]

MrpService(port) ==
    [cls |-> "MrpService", protocol |-> PROTOCOL_MRP, port |-> port]

AirPlayService(port) ==
    [cls |-> "AirPlayService", protocol |-> PROTOCOL_AIRPLAY, port |-> port]

BaseService_is_usable == FALSE

\* the plausible slip: the default answer of superseeded_by is True
BaseService_superseeded_by_true(other_service) == True

BaseService_superseeded_by(other_service) == False

DmapService_is_usable(self) == self.login_id /= None

\* the plausible slip: the port comparison of line 149 left out
DmapService_superseeded_by_anyport(self, other_service) ==
    IF \/ ~Truthy(other_service)
       \/ other_service.cls /= self.cls
       \/ other_service.protocol /= self.protocol
    THEN False
    ELSE And(Not(self.login_id), other_service.login_id)

\* the plausible slip: a service with another login id always takes over
DmapService_superseeded_by_differs(self, other_service) ==
    IF \/ ~Truthy(other_service)
       \/ other_service.cls /= self.cls
       \/ other_service.protocol /= self.protocol
       \/ other_service.port /= self.port
    THEN False
    ELSE IF self.login_id /= other_service.login_id THEN True ELSE False

DmapService_superseeded_by(self, other_service) ==
    IF \/ ~Truthy(other_service)
       \/ other_service.cls /= self.cls
       \/ other_service.protocol /= self.protocol
       \/ other_service.port /= self.port
    THEN False
    ELSE And(Not(self.login_id), other_service.login_id)

MrpService_is_usable == TRUE

\* method dispatch on the class of the receiver
is_usable_of(service) ==
    CASE service.cls = "DmapService" -> DmapService_is_usable(service)
      [] service.cls = "MrpService" -> MrpService_is_usable
      [] OTHER -> BaseService_is_usable

superseeded_by(existing, service) ==
    CASE existing.cls = "DmapService" ->
            DmapService_superseeded_by(existing, service)
      [] OTHER -> BaseService_superseeded_by(service)

----------------------------------------------------------------------------
(* dict operations *)

EmptyDict == [p \in {} |-> None]

\* the plausible slip: the dict is rebuilt with the new entry alone
DictSet_single(d, k, v) == [p \in {k} |-> v]

DictSet(d, k, v) == [p \in DOMAIN d \cup {k} |-> IF p = k THEN v ELSE d[p]]

DictGet(d, k, default) == IF k \in DOMAIN d THEN d[k] ELSE default

\* the values of the dict; the order of the list is never read
DictValues(d) == {d[p] : p \in DOMAIN d}

----------------------------------------------------------------------------
(* AppleTV: what each method returns in the current state *)

get_service(protocol) == DictGet(_services, protocol, None)

services == DictValues(_services)

RECURSIVE usable_service_loop(_)
usable_service_loop(i) ==
    IF i > Len(_supported_protocols) THEN None
    ELSE LET protocol == _supported_protocols[i] IN
         IF protocol \in DOMAIN _services /\ is_usable_of(_services[protocol])
         THEN _services[protocol]
         ELSE usable_service_loop(i + 1)

\* the plausible slip: the is_usable() test of line 58 left out
RECURSIVE usable_service_unchecked_loop(_)
usable_service_unchecked_loop(i) ==
    IF i > Len(_supported_protocols) THEN None
    ELSE LET protocol == _supported_protocols[i] IN
         IF protocol \in DOMAIN _services
         THEN _services[protocol]
         ELSE usable_service_unchecked_loop(i + 1)

usable_service_unchecked == usable_service_unchecked_loop(1)

\* the plausible slip: the loop keeps the last usable service, not the first
RECURSIVE usable_service_last_loop(_, _)
usable_service_last_loop(i, found) ==
    IF i > Len(_supported_protocols) THEN found
    ELSE LET protocol == _supported_protocols[i] IN
         IF protocol \in DOMAIN _services /\ is_usable_of(_services[protocol])
         THEN usable_service_last_loop(i + 1, _services[protocol])
         ELSE usable_service_last_loop(i + 1, found)

usable_service_last == usable_service_last_loop(1, None)

usable_service == usable_service_loop(1)

RECURSIVE preferred_service_loop(_)
preferred_service_loop(i) ==
    IF i > Len(_supported_protocols) THEN None
    ELSE LET protocol == _supported_protocols[i] IN
         IF protocol \in DOMAIN _services
         THEN _services[protocol]
         ELSE preferred_service_loop(i + 1)

\* the plausible slip: preferred_service() written as usable_service()
preferred_service_usable_only == usable_service_loop(1)

\* the plausible slip: the loop keeps the last registered service
RECURSIVE preferred_service_last_loop(_, _)
preferred_service_last_loop(i, found) ==
    IF i > Len(_supported_protocols) THEN found
    ELSE LET protocol == _supported_protocols[i] IN
         IF protocol \in DOMAIN _services
         THEN preferred_service_last_loop(i + 1, _services[protocol])
         ELSE preferred_service_last_loop(i + 1, found)

preferred_service_last == preferred_service_last_loop(1, None)

preferred_service == preferred_service_loop(1)

\* the plausible slip: only the protocols of the preference order are looked at
is_usable_by_order == usable_service_loop(1) /= None

is_usable == TRUE \in {is_usable_of(x) : x \in DictValues(_services)}

airplay_service ==
    IF PROTOCOL_AIRPLAY \in DOMAIN _services
    THEN _services[PROTOCOL_AIRPLAY]
    ELSE AirPlayService(PyInt(AirPlayDefaultPort))

\* another AppleTV instance, as __eq__ sees it
AppleTV(address_, name_, services_) ==
    [cls |-> "AppleTV", address |-> address_, name |-> name_,
     _services |-> services_]

\* the plausible slip: the name compared as well
__eq___with_name(other) ==
    IF other.cls = "AppleTV"
    THEN address = other.address /\ name = other.name
    ELSE FALSE

\* the line printed to stdout by line 94 is not part of the state
__eq__(other) ==
    IF other.cls = "AppleTV"
    THEN address = other.address
    ELSE FALSE

----------------------------------------------------------------------------
(* AppleTV: the calls *)

\* AppleTV(address, name, supported_services=supported_services)
__init__(address_, name_, supported_services) ==
    /\ address = address_
    /\ name = name_
    /\ _services = EmptyDict
    /\ _supported_protocols = supported_services
    /\ op = [name |-> "__init__", arg |-> None]
    /\ pre = EmptyDict
    /\ ret = None
    /\ supersessions = [p \in Protocols |-> 0]
    /\ effective = 0

\* one device, with the default or any custom preference order
Init ==
    \E supported_services \in Orders \cup {_SUPPORTED_PROTOCOLS} :
        __init__("10.0.0.1", "A", supported_services)

Min(a, b) == IF a <= b THEN a ELSE b

\* what an add_service call did to the registry: whether it changed it, and
\* whether it replaced the entry registered for the protocol
Track(service) ==
    /\ supersessions' =
          IF /\ service.protocol \in DOMAIN _services
             /\ _services' /= _services
          THEN [supersessions EXCEPT
                   ![service.protocol] = Min(@ + 1, MaxSupersessions)]
          ELSE supersessions
    /\ effective' =
          IF _services' /= _services
          THEN Min(effective + 1, MaxEffective)
          ELSE effective

\* the plausible slip: the store of line 35 indented under the `if` of line 30
add_service_indented(service) ==
    /\ _services' =
          IF /\ service.protocol \in DOMAIN _services
             /\ Truthy(superseeded_by(_services[service.protocol], service))
          THEN DictSet(_services, service.protocol, service)
          ELSE _services
    /\ op' = [name |-> "add_service", arg |-> service]
    /\ pre' = _services
    /\ ret' = None
    /\ Track(service)
    /\ UNCHANGED config

\* the plausible slip: the docstring's behaviour, the new service always stored
add_service_always_replace(service) ==
    /\ _services' = DictSet(_services, service.protocol, service)
    /\ op' = [name |-> "add_service", arg |-> service]
    /\ pre' = _services
    /\ ret' = None
    /\ Track(service)
    /\ UNCHANGED config

\* the plausible slip: the registered service is taken out of the dict to be
\* looked at (pop), and is not put back when the new one is discarded
add_service_pop(service) ==
    /\ _services' =
          IF /\ service.protocol \in DOMAIN _services
             /\ ~Truthy(superseeded_by(_services[service.protocol], service))
          THEN [p \in DOMAIN _services \ {service.protocol} |-> _services[p]]
          ELSE DictSet(_services, service.protocol, service)
    /\ op' = [name |-> "add_service", arg |-> service]
    /\ pre' = _services
    /\ ret' = None
    /\ Track(service)
    /\ UNCHANGED config

\* the protocol a service class stands for
ProtocolOfClass(service) ==
    CASE service.cls = "MrpService" -> PROTOCOL_MRP
      [] service.cls = "AirPlayService" -> PROTOCOL_AIRPLAY
      [] OTHER -> PROTOCOL_DMAP

\* the plausible slip: the entry is keyed by the class of the service, not
\* by its protocol field
add_service_keyed_by_class(service) ==
    /\ _services' =
          IF /\ ProtocolOfClass(service) \in DOMAIN _services
             /\ ~Truthy(superseeded_by(_services[ProtocolOfClass(service)],
                                       service))
          THEN _services
          ELSE DictSet(_services, ProtocolOfClass(service), service)
    /\ op' = [name |-> "add_service", arg |-> service]
    /\ pre' = _services
    /\ ret' = None
    /\ Track(service)
    /\ UNCHANGED config

add_service(service) ==
    /\ _services' =
          IF /\ service.protocol \in DOMAIN _services
             /\ ~Truthy(superseeded_by(_services[service.protocol], service))
          THEN _services
          ELSE DictSet(_services, service.protocol, service)
    /\ op' = [name |-> "add_service", arg |-> service]
    /\ pre' = _services
    /\ ret' = None
    /\ Track(service)
    /\ UNCHANGED config

call_get_service(protocol) ==
    /\ op' = [name |-> "get_service", arg |-> protocol]
    /\ pre' = _services
    /\ ret' = get_service(protocol)
    /\ UNCHANGED <<_services, config, counters>>

call_services ==
    /\ op' = [name |-> "services", arg |-> None]
    /\ pre' = _services
    /\ ret' = services
    /\ UNCHANGED <<_services, config, counters>>

call_usable_service ==
    /\ op' = [name |-> "usable_service", arg |-> None]
    /\ pre' = _services
    /\ ret' = usable_service
    /\ UNCHANGED <<_services, config, counters>>

call_preferred_service ==
    /\ op' = [name |-> "preferred_service", arg |-> None]
    /\ pre' = _services
    /\ ret' = preferred_service
    /\ UNCHANGED <<_services, config, counters>>

call_is_usable ==
    /\ op' = [name |-> "is_usable", arg |-> None]
    /\ pre' = _services
    /\ ret' = is_usable
    /\ UNCHANGED <<_services, config, counters>>

\* the plausible slip: the default service is stored when it is created
call_airplay_service_caching ==
    /\ op' = [name |-> "airplay_service", arg |-> None]
    /\ pre' = _services
    /\ ret' = airplay_service
    /\ _services' = DictSet(_services, PROTOCOL_AIRPLAY, airplay_service)
    /\ UNCHANGED <<config, counters>>

call_airplay_service ==
    /\ op' = [name |-> "airplay_service", arg |-> None]
    /\ pre' = _services
    /\ ret' = airplay_service
    /\ UNCHANGED <<_services, config, counters>>

Next ==
    \/ \E protocol \in Protocols, port \in Ports :
          add_service(BaseService(protocol, port))
    \/ \E login_id \in LoginIds, port \in PortArgs :
          add_service(DmapService(login_id, port))
    \/ \E port \in Ports : add_service(MrpService(port))
    \/ \E port \in Ports : add_service(AirPlayService(port))
    \/ \E protocol \in Protocols : call_get_service(protocol)
    \/ call_services
    \/ call_usable_service
    \/ call_preferred_service
    \/ call_is_usable
    \/ call_airplay_service

Spec == Init /\ [][Next]_vars

\* what a device is compared with: devices of every address and name, with
\* and without services, and objects that are no devices
Others ==
    {AppleTV(a, n, s) :
        a \in Addresses, n \in Names,
        s \in {EmptyDict,
               DictSet(EmptyDict, PROTOCOL_MRP,
                       MrpService(PyInt(AirPlayDefaultPort)))}}
    \cup {None, PyStr("10.0.0.1")}

call___eq__(other) ==
    /\ op' = [name |-> "__eq__", arg |-> other]
    /\ pre' = _services
    /\ ret' = __eq__(other)
    /\ UNCHANGED <<_services, config, counters>>

\* devices of every address and name, with the default preference order
InitEq ==
    \E address_ \in Addresses, name_ \in Names :
        __init__(address_, name_, _SUPPORTED_PROTOCOLS)

NextEq ==
    \/ Next
    \/ \E other \in Others : call___eq__(other)

SpecEq == InitEq /\ [][NextEq]_vars

----------------------------------------------------------------------------
(* Properties of add_service *)

\* the last call was add_service(op.arg)
Added == op.name = "add_service"

\* the last call was add_service of a service whose protocol was registered
AddedToRegistered == Added /\ op.arg.protocol \in DOMAIN pre

\* that call replaced the service registered for the protocol
Replaced ==
    /\ AddedToRegistered
    /\ _services[op.arg.protocol] /= pre[op.arg.protocol]

\* C1: after add_service(s) on a device with no entry for s.protocol,
\* get_service(s.protocol) returns exactly s.
C1_AddUnregistered ==
    (Added /\ op.arg.protocol \notin DOMAIN pre)
        => get_service(op.arg.protocol) = op.arg

\* a service was added for a new protocol while another one was registered
C1_Witness ==
    /\ Added
    /\ op.arg.protocol \notin DOMAIN pre
    /\ pre /= EmptyDict
    /\ get_service(op.arg.protocol) = op.arg

C3_ReplacedOnlyByUpgrade ==
    (Replaced /\ pre[op.arg.protocol].cls = "DmapService")
        => /\ op.arg.cls = "DmapService"
           /\ op.arg.protocol = pre[op.arg.protocol].protocol
           /\ op.arg.port = pre[op.arg.protocol].port
           /\ op.arg.login_id /= None
           /\ pre[op.arg.protocol].login_id = None
           /\ ~is_usable_of(pre[op.arg.protocol])

\* C4: upgrade law: with DmapService(None, p) registered by a first
\* add_service, add_service(DmapService(x, p)) for any present (not None)
\* login id x leaves get_service(DMAP) equal to the second service.
C4_UpgradeLaw ==
    (/\ AddedToRegistered
     /\ op.arg.cls = "DmapService"
     /\ op.arg.login_id /= None
     /\ pre[PROTOCOL_DMAP].cls = "DmapService"
     /\ pre[PROTOCOL_DMAP].login_id = None
     /\ pre[PROTOCOL_DMAP].port = op.arg.port)
        => /\ get_service(PROTOCOL_DMAP) = op.arg
           /\ get_service(PROTOCOL_DMAP).login_id = op.arg.login_id

Supersedes(existing, service) ==
    /\ existing.cls = "DmapService"
    /\ service.cls = "DmapService"
    /\ service.port = existing.port
    /\ existing.login_id \in {None, PyStr("")}
    /\ service.login_id \notin {None, PyStr("")}

----------------------------------------------------------------------------
(* Properties of the selection queries *)

\* positions of the preference order whose protocol is registered
RegisteredAt ==
    {i \in 1..Len(_supported_protocols) :
        _supported_protocols[i] \in DOMAIN _services}

\* positions of the preference order whose protocol has a usable service
UsableAt ==
    {i \in RegisteredAt : is_usable_of(_services[_supported_protocols[i]])}

Earliest(positions) == CHOOSE i \in positions : \A j \in positions : i <= j

BothUsable ==
    /\ PROTOCOL_MRP \in DOMAIN _services
    /\ PROTOCOL_DMAP \in DOMAIN _services
    /\ is_usable_of(_services[PROTOCOL_MRP])
    /\ is_usable_of(_services[PROTOCOL_DMAP])

MrpBeforeDmap ==
    \E i \in 1..Len(_supported_protocols) :
        /\ _supported_protocols[i] = PROTOCOL_MRP
        /\ \A j \in 1..(i - 1) : _supported_protocols[j] /= PROTOCOL_DMAP

C9_DeviceUsableIffSomeServiceUsable ==
    op.name = "is_usable" =>
        (ret = TRUE <=> \E s \in services : is_usable_of(s))

\* the device is usable through a protocol the preference order leaves out
C9_Witness ==
    /\ op.name = "is_usable"
    /\ ret = TRUE
    /\ UsableAt = {}
    /\ usable_service = None

\* C10: airplay_service() returns the registered AirPlay service when there
\* is one; otherwise a service with protocol AirPlay and port 7000; in both
\* cases the registry is left as it was, so get_service(AirPlay) still
\* returns None when none was registered.
C10_AirPlayDefaultNotStored ==
    op.name = "airplay_service" =>
        /\ _services = pre
        /\ PROTOCOL_AIRPLAY \in DOMAIN pre => ret = pre[PROTOCOL_AIRPLAY]
        /\ PROTOCOL_AIRPLAY \notin DOMAIN pre =>
              /\ ret.protocol = PROTOCOL_AIRPLAY
              /\ ret.port = PyInt(7000)
              /\ get_service(PROTOCOL_AIRPLAY) = None

\* the default was returned by a device that has other services registered
C10_Witness ==
    /\ op.name = "airplay_service"
    /\ PROTOCOL_AIRPLAY \notin DOMAIN pre
    /\ pre /= EmptyDict
    /\ ret = AirPlayService(PyInt(7000))
    /\ get_service(PROTOCOL_AIRPLAY) = None

----------------------------------------------------------------------------
(* Properties of the registry over time *)

\* C11: no call removes a service: once get_service(P) returns a service it
\* returns a service, never None, after every later call.
C11_NeverRemoved ==
    [][\A p \in Protocols :
          get_service(p) /= None => (get_service(p) /= None)']_vars

\* a full registry that has just discarded a candidate
C11_Witness ==
    /\ AddedToRegistered
    /\ op.arg /= pre[op.arg.protocol]
    /\ Cardinality(DOMAIN pre) = 3
    /\ \A p \in DOMAIN pre : get_service(p) /= None

\* C12: add_service is idempotent: a second add_service(s) right after
\* add_service(s) leaves the registry as the first call left it.
C12_Idempotent ==
    [][(/\ op.name = "add_service"
        /\ op'.name = "add_service"
        /\ op'.arg = op.arg) => _services' = _services]_vars

\* add_service(s) called on a registry that already holds s for its protocol,
\* as the first of two calls leaves it
C12_Witness ==
    /\ AddedToRegistered
    /\ pre[op.arg.protocol] = op.arg
    /\ _services = pre

----------------------------------------------------------------------------
(* Properties of __eq__ *)

\* C14: two devices compare equal if and only if their addresses are equal;
\* names and registered services play no part.
C14_EqualIffSameAddress ==
    (op.name = "__eq__" /\ op.arg.cls = "AppleTV")
        => (ret = TRUE <=> address = op.arg.address)

\* equal to a device of the same address with another name and registry
C14_Witness ==
    /\ op.name = "__eq__"
    /\ op.arg.cls = "AppleTV"
    /\ op.arg.address = address
    /\ op.arg.name /= name
    /\ op.arg._services /= _services
    /\ _services /= EmptyDict
    /\ ret = TRUE

----------------------------------------------------------------------------
(* Invariants of the registry *)

\* C15: every entry of the registry is stored under the protocol field of
\* the stored service, and so no two registered services share a protocol.
C15_KeyIsProtocol ==
    /\ \A p \in DOMAIN _services : _services[p].protocol = p
    /\ \A p \in Protocols :
          Cardinality({q \in DOMAIN _services : _services[q].protocol = p}) <= 1

\* a full registry after an add_service of a BaseService, whose protocol
\* field is free
C15_Witness ==
    /\ Added
    /\ op.arg.cls = "BaseService"
    /\ Cardinality(DOMAIN _services) = 3
    /\ _services[op.arg.protocol] = op.arg

\* C16 as stated: on every device, whatever its preference order, is_usable()
\* is true if and only if usable_service() returns a service.
C16_UsableIffUsableService ==
    is_usable <=> usable_service /= None

----------------------------------------------------------------------------
(* Usability over time *)

PositionOf(service) ==
    CHOOSE i \in 1..Len(_supported_protocols) :
        _supported_protocols[i] = service.protocol

\* positions of the preference order whose protocol had a usable service
\* when the last call started
UsableBeforeAt ==
    {i \in 1..Len(_supported_protocols) :
        /\ _supported_protocols[i] \in DOMAIN pre
        /\ is_usable_of(pre[_supported_protocols[i]])}

C20_PreferredNotAfterUsable ==
    usable_service /= None =>
        /\ preferred_service /= None
        /\ PositionOf(preferred_service) <= PositionOf(usable_service)
        /\ preferred_service = usable_service
              <=> is_usable_of(preferred_service)

\* usable_service() returned a service while preferred_service() is an
\* unusable one at an earlier position
C20_Witness ==
    /\ op.name = "usable_service"
    /\ ret /= None
    /\ preferred_service /= ret
    /\ ~is_usable_of(preferred_service)
    /\ PositionOf(preferred_service) < PositionOf(ret)

====
